---- MODULE Spec2Model ----
(***************************************************************************)
(* Model of the sensor streaming pipeline: setup_database.py (the producer *)
(* that creates, seeds and streams into the SQLite table sensor_data) and  *)
(* streamlit_app.py (the dashboard that polls the table and re-runs).      *)
(*                                                                         *)
(* Time is an integer count of clock ticks, Second ticks to the second.    *)
(* `now` is the true (UTC) instant.  A timestamp column holds text; the    *)
(* three writers of such text are modelled by the number whose ISO text    *)
(* they produce: Python's datetime adapter writes the naive LOCAL wall     *)
(* clock with its fraction, SQLite's CURRENT_TIMESTAMP and datetime('now') *)
(* write the UTC clock cut to whole seconds.  ISO texts of one width       *)
(* compare as their numbers do, and a text with a fraction sorts after its *)
(* own whole-second prefix, so text comparison is comparison of numbers.   *)
(***************************************************************************)
EXTENDS Integers, Sequences, FiniteSets, TLC

\* ------------------------------------------------------------------ bounds
Second == 2               \* clock ticks per second (resolution of `now`)
MaxEvents == 3            \* events from outside over a behaviour: launches of
                          \* setup_database.py, advances of the clock and
                          \* operator interactions with the sidebar
CountCap == 2             \* the call counters saturate here ("more than one")

\* ------------------------------------------------------- program constants
SeedCount == 100          \* range(100)
SeedSpacingSeconds == 864 \* timedelta(minutes=i * 14.4)
SeedSpanHours == 24       \* timedelta(hours=24)
StreamSleep == 5          \* time.sleep(5) after an insert
ErrorSleep == 5           \* time.sleep(5) after an error
DefaultHoursBack == 24    \* selectbox index=3 of [1, 6, 12, 24, 48]
DefaultDataLimit == 1000  \* slider value=1000
DefaultRefreshInterval == 5

Hour == 3600 * Second
TZOffsets == {0 - Hour, 0, Hour}   \* local wall clock minus UTC
HoursOptions == {1, DefaultHoursBack}
LimitOptions == {100, DefaultDataLimit}
IntervalOptions == {1, DefaultRefreshInterval}
Day == 24 * Hour
TickSteps == {1, StreamSleep * Second, Day}
Draws == {0 - 1, 1}       \* the sign of the Gaussian perturbation

NoRow == [id |-> 0]

SecFloor(t) == t - (t % Second)

\* One row of sensor_data: each measured field is its centre value plus a
\* perturbation.
Row(id, timestamp, ins, via, g) ==
  [id |-> id, timestamp |-> timestamp, ins |-> ins, via |-> via,
   temperature |-> 20 + 5 * g, humidity |-> 50 + 10 * g, pressure |-> 1013 + 20 * g]

VARIABLES
  now,              \* the true instant (UTC), in clock ticks
  events,           \* events from outside so far
  tzOffset,         \* local wall clock minus UTC, fixed for a behaviour
  storeUp,          \* whether streaming_data.db can be opened and used
  db,               \* the database file: [schema, rows]; rows in id order
  pc_p,             \* the producer's position in setup_database.py
  base_time,        \* insert_sample_data's base_time
  pending,          \* the executed, not yet committed streaming INSERT
  wake_p,           \* when the producer's time.sleep returns
  failed,           \* whether this run of the loop has caught an error
  pc_d,             \* the dashboard's position in main()
  button,           \* what st.sidebar.button returns in this script run
  auto_refresh, hours_back, data_limit, refresh_interval,
  df,               \* load_data's result in this script run
  latest_values,    \* get_latest_values' result in this script run
  banners,          \* st.error / st.warning elements shown by this script run
  wake_d,           \* when the dashboard's time.sleep returns
  query_now,        \* the instant of this run's load_data
  query_len,        \* how many rows the store held at this run's load_data
  latest_len,       \* how many rows it held at this run's get_latest_values
  loads, renders,   \* load_data calls and renders since the last trigger,
                    \* counted while auto_refresh is off
  trigger           \* what last started the script from outside

envVars == <<now, events, tzOffset, storeUp>>
prodVars == <<pc_p, base_time, pending, wake_p, failed>>
confVars == <<auto_refresh, hours_back, data_limit, refresh_interval>>
pollVars == <<df, latest_values, banners, query_now, query_len, latest_len>>
dashVars == <<pc_d, button, confVars, pollVars, wake_d, loads, renders, trigger>>
vars == <<envVars, db, prodVars, dashVars>>

\* ------------------------------------------------------------- the store
\* Mutant: the table is created afresh on every call (DROP, then CREATE).
create_table_afresh(d) == [schema |-> TRUE, rows |-> <<>>]

\* CREATE TABLE IF NOT EXISTS sensor_data (...)
create_table(d) == IF d.schema THEN d ELSE [schema |-> TRUE, rows |-> <<>>]

\* id INTEGER PRIMARY KEY AUTOINCREMENT: one more than the largest id so far.
next_id(d) == Len(d.rows) + 1

\* datetime.now() as the sqlite3 adapter stores it: the naive local wall clock.
datetime_now(t, tz) == t + tz

\* CURRENT_TIMESTAMP: the UTC clock, whole seconds.
current_timestamp(t) == SecFloor(t)

\* Mutant: the cutoff keeps the fraction of the second.
sql_cutoff_unrounded(t, h) == t - h * Hour

\* datetime('now', '-h hours')
sql_cutoff(t, h) == SecFloor(t) - h * Hour

\* Rows i = 0..99 of insert_sample_data.  `ins` (the commit instant) and `via`
\* (the INSERT that wrote the row) are history fields no query reads.
seed_rows(d, base, t) ==
  [k \in 1..SeedCount |->
     Row(next_id(d) + k - 1, base + (k - 1) * SeedSpacingSeconds * Second,
         t, "seed", IF k % 2 = 0 THEN 1 ELSE 0 - 1)]

\* The row of simulate_streaming_data's INSERT, timestamp by column default.
stream_row(t, g) == Row(1, current_timestamp(t), t, "stream", g)

commit_row(d, r, t) ==
  [d EXCEPT !.rows = Append(@, [r EXCEPT !.id = next_id(d), !.ins = t])]

\* ORDER BY timestamp DESC; rows of equal timestamp come in either id order.
sql_desc(a, b, tie) ==
  \/ a.timestamp > b.timestamp
  \/ a.timestamp = b.timestamp /\ (IF tie THEN a.id > b.id ELSE a.id < b.id)

\* df.sort_values('timestamp'): ascending, unstable on equal timestamps.
pandas_asc(a, b, tie) ==
  \/ a.timestamp < b.timestamp
  \/ a.timestamp = b.timestamp /\ (IF tie THEN a.id < b.id ELSE a.id > b.id)

Min(a, b) == IF a < b THEN a ELSE b

Reverse(s) == [i \in 1..Len(s) |-> s[Len(s) + 1 - i]]

\* The rows under ORDER BY timestamp DESC.  The rows handed over stand nearly
\* in the opposite order, so the sort starts from the reversed sequence; a
\* total order has one sorted arrangement, whatever the start.
order_by_desc(rows, tie) ==
  SortSeq(Reverse(rows), LAMBDA a, b : sql_desc(a, b, tie))

\* WHERE timestamp >= datetime('now','-h hours') ORDER BY timestamp DESC LIMIT l
sql_window(rows, t, h, l, tie) ==
  LET hit == SelectSeq(rows, LAMBDA r : r.timestamp >= sql_cutoff(t, h))
      ord == order_by_desc(hit, tie)
  IN  SubSeq(ord, 1, Min(l, Len(ord)))

\* The frame's rows, handed over in descending order, sorted ascending.
sort_values(rows, tie) ==
  SortSeq(Reverse(rows), LAMBDA a, b : pandas_asc(a, b, tie))

\* pd.DataFrame(): no columns, no rows.
EmptyFrame == [columns |-> 0, rows |-> <<>>]

\* df.empty
empty(frame) == frame.columns = 0 \/ Len(frame.rows) = 0

\* load_data's two error exits and its normal exit.
load_data(conn_ok, query_ok, d, t, h, l, tie) ==
  IF ~conn_ok THEN [df |-> EmptyFrame, shown |-> {"Database error"}]
  ELSE IF ~query_ok \/ ~d.schema
    THEN [df |-> EmptyFrame, shown |-> {"Error loading data"}]
    ELSE LET res == sql_window(d.rows, t, h, l, tie)
         IN  [df |-> [columns |-> 4,
                      rows |-> IF res # <<>> THEN sort_values(res, tie) ELSE res],
              shown |-> {}]

NoLatest == [found |-> FALSE]

\* SELECT ... ORDER BY timestamp DESC LIMIT 1, fetchone()
get_latest_values(conn_ok, query_ok, d, tie) ==
  IF ~conn_ok THEN [value |-> NoLatest, shown |-> {"Database error"}]
  ELSE IF ~query_ok \/ ~d.schema
    THEN [value |-> NoLatest, shown |-> {"Error getting latest values"}]
    ELSE LET ord == order_by_desc(d.rows, tie)
             result == SubSeq(ord, 1, Min(1, Len(ord)))
         IN  [value |-> IF result = <<>> THEN NoLatest
                        ELSE [found |-> TRUE,
                              temperature |-> result[1].temperature,
                              humidity |-> result[1].humidity,
                              pressure |-> result[1].pressure,
                              timestamp |-> result[1].timestamp],
              shown |-> {}]

\* ------------------------------------------------------------ environment
\* The page has just been opened; the producer has not been started.
Start ==
  /\ now = 0 /\ events = 0
  /\ storeUp = TRUE
  /\ db = [schema |-> FALSE, rows |-> <<>>]
  /\ pc_p = "stopped" /\ base_time = 0 /\ pending = NoRow /\ wake_p = 0
  /\ failed = FALSE
  /\ pc_d = "run" /\ button = FALSE
  /\ auto_refresh = TRUE
  /\ data_limit = DefaultDataLimit
  /\ refresh_interval = DefaultRefreshInterval
  /\ df = EmptyFrame /\ latest_values = NoLatest /\ banners = {}
  /\ wake_d = 0 /\ query_now = 0 /\ query_len = 0 /\ latest_len = 0
  /\ loads = 0 /\ renders = 0 /\ trigger = "page_load"

\* Time passes.  A program step takes no time: the clock advances while the
\* producer waits (not started, at its prompt, in time.sleep) and the
\* dashboard waits (a rerun is due, in time.sleep, or the script has ended).
Tick ==
  /\ events < MaxEvents
  /\ pc_p \in {"stopped", "prompt", "sleep", "error_sleep"}
  /\ pc_d \in {"run", "sleeping", "idle"}
  /\ \E d \in TickSteps : now' = now + d
  /\ events' = events + 1
  /\ UNCHANGED <<tzOffset, storeUp, db, prodVars, dashVars>>

\* The database file becomes unusable (locked, unreadable, disk error) or
\* usable again.
StoreFlip ==
  /\ storeUp' = ~storeUp
  /\ UNCHANGED <<now, events, tzOffset, db, prodVars, dashVars>>

\* --------------------------------------------------------------- producer
StreamingPcs == {"loop", "commit", "sleep", "error_sleep"}

\* python setup_database.py
Launch ==
  /\ pc_p = "stopped" /\ events < MaxEvents
  /\ pc_p' = "create_database" /\ events' = events + 1
  /\ failed' = FALSE
  /\ UNCHANGED <<now, tzOffset, storeUp, db, base_time, pending, wake_p, dashVars>>

\* create_database(); an sqlite3 error is not caught and ends the process.
create_database ==
  /\ pc_p = "create_database"
  /\ IF storeUp
       THEN db' = create_table(db) /\ pc_p' = "insert_sample_data"
       ELSE db' = db /\ pc_p' = "stopped"
  /\ UNCHANGED <<envVars, base_time, pending, wake_p, failed, dashVars>>

\* insert_sample_data(), up to base_time = datetime.now() - timedelta(hours=24)
seed_begin ==
  /\ pc_p = "insert_sample_data"
  /\ IF storeUp
       THEN /\ base_time' = datetime_now(now, tzOffset) - SeedSpanHours * Hour
            /\ pc_p' = "seed_commit"
       ELSE base_time' = base_time /\ pc_p' = "stopped"
  /\ UNCHANGED <<envVars, db, pending, wake_p, failed, dashVars>>

\* insert_sample_data(): the 100 INSERTs and conn.commit(), one transaction.
seed_commit ==
  /\ pc_p = "seed_commit"
  /\ IF storeUp
       THEN /\ db' = [db EXCEPT !.rows = @ \o seed_rows(db, base_time, now)]
            /\ pc_p' = "prompt"
       ELSE db' = db /\ pc_p' = "stopped"
  /\ base_time' = 0
  /\ UNCHANGED <<envVars, pending, wake_p, failed, dashVars>>

\* input("Do you want to start streaming data simulation? (y/n): ")
prompt ==
  /\ pc_p = "prompt"
  /\ \E choice \in {"y", "n"} :
       pc_p' = IF choice = "y" THEN "loop" ELSE "stopped"
  /\ UNCHANGED <<envVars, db, base_time, pending, wake_p, failed, dashVars>>

\* Mutant: the error is not caught and ends the process.
on_insert_error_exit == "stopped"

\* Where `except Exception` leaves the loop: print, time.sleep(5), next turn.
on_insert_error == "error_sleep"

\* One turn of the loop up to cursor.execute: connect, draw, INSERT.
stream_execute ==
  /\ pc_p = "loop"
  /\ IF storeUp /\ db.schema
       THEN /\ \E g \in Draws : pending' = stream_row(now, g)
            /\ pc_p' = "commit" /\ wake_p' = wake_p /\ failed' = failed
       ELSE /\ pending' = NoRow
            /\ pc_p' = on_insert_error
            /\ wake_p' = now + ErrorSleep * Second
            /\ failed' = TRUE
  /\ UNCHANGED <<envVars, db, base_time, dashVars>>

\* conn.commit(); conn.close(); print; time.sleep(5)
stream_commit ==
  /\ pc_p = "commit"
  /\ IF storeUp
       THEN /\ db' = commit_row(db, pending, now)
            /\ pc_p' = "sleep"
            /\ wake_p' = now + StreamSleep * Second
            /\ failed' = failed
       ELSE /\ db' = db
            /\ pc_p' = on_insert_error
            /\ wake_p' = now + ErrorSleep * Second
            /\ failed' = TRUE
  /\ pending' = NoRow
  /\ UNCHANGED <<envVars, base_time, dashVars>>

\* time.sleep(5) returns, after a success or after an error.
stream_wake ==
  /\ pc_p \in {"sleep", "error_sleep"} /\ now >= wake_p
  /\ pc_p' = "loop" /\ wake_p' = 0
  /\ UNCHANGED <<envVars, db, base_time, pending, failed, dashVars>>

\* SIGINT while streaming: signal_handler prints and raises SystemExit, which
\* `except Exception` does not catch, wherever the loop stands.  The process
\* ends; a transaction left open is rolled back.
signal_handler ==
  /\ pc_p \in StreamingPcs
  /\ pc_p' = "stopped"
  /\ pending' = NoRow
  /\ UNCHANGED <<envVars, db, base_time, wake_p, failed, dashVars>>

Producer ==
  \/ Launch \/ create_database \/ seed_begin \/ seed_commit \/ prompt
  \/ stream_execute \/ stream_commit \/ stream_wake \/ signal_handler

\* -------------------------------------------------------------- dashboard
\* An operator interaction reruns the script from the top, whatever it was
\* doing; the page of the previous run is discarded.
rerun_on_trigger ==
  /\ events < MaxEvents
  /\ events' = events + 1
  /\ pc_d' = "run" /\ wake_d' = 0
  /\ loads' = 0 /\ renders' = 0
  /\ UNCHANGED <<now, tzOffset, storeUp, db, prodVars, pollVars>>

\* st.sidebar.checkbox("Auto-refresh", value=True); the interval slider
\* exists only while the box is ticked and starts at its default.
toggle_auto_refresh ==
  /\ rerun_on_trigger /\ trigger' = "control"
  /\ auto_refresh' = ~auto_refresh
  /\ refresh_interval' = DefaultRefreshInterval
  /\ button' = FALSE
  /\ UNCHANGED <<hours_back, data_limit>>

\* st.sidebar.selectbox("Time range (hours)", ...)
select_hours_back ==
  /\ rerun_on_trigger /\ trigger' = "control"
  /\ \E h \in HoursOptions \ {hours_back} : hours_back' = h
  /\ button' = FALSE
  /\ UNCHANGED <<auto_refresh, data_limit, refresh_interval>>

\* st.sidebar.slider("Max data points", ...)
slide_data_limit ==
  /\ rerun_on_trigger /\ trigger' = "control"
  /\ \E l \in LimitOptions \ {data_limit} : data_limit' = l
  /\ button' = FALSE
  /\ UNCHANGED <<auto_refresh, hours_back, refresh_interval>>

\* st.sidebar.slider("Refresh interval (seconds)", ...), shown if auto_refresh
slide_refresh_interval ==
  /\ auto_refresh
  /\ rerun_on_trigger /\ trigger' = "control"
  /\ \E i \in IntervalOptions \ {refresh_interval} : refresh_interval' = i
  /\ button' = FALSE
  /\ UNCHANGED <<auto_refresh, hours_back, data_limit>>

\* A click on "Refresh Now": the rerun it causes sees the button as True.
click_refresh_now ==
  /\ rerun_on_trigger /\ trigger' = "button"
  /\ button' = TRUE
  /\ UNCHANGED confVars

\* main() down to the sidebar: `if st.sidebar.button(...): st.rerun()`.
script_start ==
  /\ pc_d = "run"
  /\ IF button
       THEN pc_d' = "run" /\ button' = FALSE
       ELSE pc_d' = "load_data" /\ button' = button
  /\ banners' = {}
  /\ UNCHANGED <<envVars, db, prodVars, confVars, df, latest_values, query_now,
                 query_len, latest_len, wake_d, loads, renders, trigger>>

\* df = load_data(hours_back, data_limit)
main_load_data ==
  /\ pc_d = "load_data"
  /\ \E conn_ok, query_ok, tie \in BOOLEAN :
       /\ storeUp => conn_ok /\ query_ok
       /\ ~storeUp => ~(conn_ok /\ query_ok)
       /\ LET out == load_data(conn_ok, query_ok, db, now,
                               hours_back, data_limit, tie)
          IN  df' = out.df /\ banners' = out.shown
  /\ query_now' = now /\ query_len' = Len(db.rows)
  /\ loads' = IF auto_refresh THEN loads ELSE Min(loads + 1, CountCap)
  /\ pc_d' = "get_latest_values"
  /\ UNCHANGED <<envVars, db, prodVars, button, confVars, latest_values,
                 latest_len, wake_d, renders, trigger>>

\* latest_values = get_latest_values()
main_get_latest_values ==
  /\ pc_d = "get_latest_values"
  /\ \E conn_ok, query_ok, tie \in BOOLEAN :
       /\ storeUp => conn_ok /\ query_ok
       /\ ~storeUp => ~(conn_ok /\ query_ok)
       /\ LET out == get_latest_values(conn_ok, query_ok, db, tie)
          IN  latest_values' = out.value /\ banners' = banners \cup out.shown
  /\ latest_len' = Len(db.rows)
  /\ pc_d' = "render"
  /\ UNCHANGED <<envVars, db, prodVars, button, confVars, df, query_now,
                 query_len, wake_d, loads, renders, trigger>>

\* Mutant: the sleep and rerun are not guarded by auto_refresh.
after_render_unguarded(auto) == "sleeping"

\* Where main() goes once the page is drawn: `if auto_refresh: time.sleep(...)`.
after_render(auto) == IF auto THEN "sleeping" ELSE "idle"

\* main() from `if df.empty:` to its end.  Nothing reads df or latest_values
\* after the page is drawn: they end with the run, the page (banners) stays.
main_render ==
  /\ pc_d = "render"
  /\ renders' = IF auto_refresh THEN renders ELSE Min(renders + 1, CountCap)
  /\ IF empty(df)
       THEN /\ banners' = banners \cup {"No data found"}
            /\ pc_d' = "idle"
            /\ wake_d' = wake_d
       ELSE /\ banners' = banners
            /\ pc_d' = after_render(auto_refresh)
            /\ wake_d' = IF auto_refresh THEN now + refresh_interval * Second
                         ELSE wake_d
  /\ df' = EmptyFrame /\ latest_values' = NoLatest
  /\ query_now' = 0 /\ query_len' = 0 /\ latest_len' = 0
  /\ UNCHANGED <<envVars, db, prodVars, button, confVars, loads, trigger>>

\* time.sleep(refresh_interval) returns; st.rerun()
main_rerun ==
  /\ pc_d = "sleeping" /\ now >= wake_d
  /\ pc_d' = "run" /\ wake_d' = 0
  /\ UNCHANGED <<envVars, db, prodVars, button, confVars, pollVars,
                 loads, renders, trigger>>

Operator ==
  \/ toggle_auto_refresh \/ select_hours_back \/ slide_data_limit
  \/ slide_refresh_interval \/ click_refresh_now

Dashboard ==
  \/ script_start \/ main_load_data \/ main_get_latest_values
  \/ main_render \/ main_rerun

\* The whole system on a machine whose clock is UTC, over a usable store.
Next == Tick \/ Producer \/ Dashboard

Init == Start /\ tzOffset = 0 /\ hours_back = DefaultHoursBack

Spec == Init /\ [][Next]_vars

\* The whole system on a machine in any of the time zones.
ZoneInit == Start /\ tzOffset \in TZOffsets /\ hours_back = DefaultHoursBack

ZoneSpec == ZoneInit /\ [][Next]_vars

\* The dashboard with its operator, over a store that is seeded at most once
\* and may fail.
SchedNext ==
  \/ Tick \/ StoreFlip
  \/ Launch \/ create_database \/ seed_begin \/ seed_commit
  \/ Operator \/ Dashboard

SchedSpec == ZoneInit /\ [][SchedNext]_vars

\* The producer alone, over a store that may fail.  Each step of the loop is
\* taken once it can be; the clock keeps advancing while it may.
ProdNext == Tick \/ StoreFlip \/ Producer

ProdSpec ==
  /\ Init /\ [][ProdNext]_vars
  /\ WF_vars(Tick)
  /\ WF_vars(stream_execute) /\ WF_vars(stream_commit) /\ WF_vars(stream_wake)

\* ------------------------------------------------------------------ claims
\* This run's load_data has returned a frame read from the store.
Polled == pc_d \in {"get_latest_values", "render"} /\ df.columns # 0

\* This run's get_latest_values has returned.
LatestRead == pc_d = "render" /\ banners = {}

\* C1: load_data returns at most `limit` rows, and every returned row was
\* inserted no earlier than the query instant minus the lookback (instants
\* compared at the store's resolution of whole seconds).
C1_WindowHoldsRecentInserts ==
  Polled =>
    /\ Len(df.rows) <= data_limit
    /\ \A i \in 1..Len(df.rows) :
         SecFloor(df.rows[i].ins) >= SecFloor(query_now) - hours_back * Hour

\* C2: when get_latest_values is called right after a streaming insert has
\* committed, it returns the temperature, humidity and pressure of that row.
C2_LatestIsJustInserted ==
  (LatestRead /\ latest_len > 0 /\ db.rows[latest_len].via = "stream") =>
    /\ latest_values.found
    /\ latest_values.temperature = db.rows[latest_len].temperature
    /\ latest_values.humidity = db.rows[latest_len].humidity
    /\ latest_values.pressure = db.rows[latest_len].pressure

\* The store held exactly one seeding, and load_data(24, 1000) has read it.
SeededThenPolled ==
  /\ Polled /\ query_len = SeedCount
  /\ hours_back = DefaultHoursBack /\ data_limit = DefaultDataLimit

\* C3 as stated: after one seeding of an empty store, load_data(24, 1000)
\* returns exactly 100 rows at any later instant (here on a machine whose
\* clock is UTC, where stored and queried timestamps are on one scale).
C3_SeedThenFullWindow ==
  (SeededThenPolled /\ tzOffset = 0) => Len(df.rows) = SeedCount

\* C3 as amended: after one seeding of an empty store, load_data(24, 1000)
\* returns the seeded rows from the first one at or after the cutoff on, in
\* insertion order; these are all 100 exactly when the query instant, cut to
\* whole UTC seconds, is not later than the wall-clock reading the seeding
\* took from datetime.now().
C3_SeedThenWindowSuffix ==
  SeededThenPolled =>
    /\ df.rows = SubSeq(db.rows, SeedCount - Len(df.rows) + 1, SeedCount)
    /\ Len(df.rows) = SeedCount
         <=> SecFloor(query_now) <= db.rows[1].timestamp + SeedSpanHours * Hour

\* C3 witness: a poll at an instant after the seeding that still gets all rows.
C3_Witness ==
  SeededThenPolled /\ query_now > db.rows[1].ins /\ Len(df.rows) = SeedCount

\* C4: with auto_refresh on, the script never comes to rest: whatever a cycle
\* found, it sleeps and reruns.
C4_AutoRefreshNeverIdle == pc_d = "idle" => ~auto_refresh

\* C5: the "no data" notice is drawn only for an empty window of a store that
\* answered, never together with a store error.
C5_NoDataOnlyForEmptyWindow ==
  "No data found" \in banners =>
    banners \cap {"Database error", "Error loading data"} = {}

\* C6: an error in a turn of the streaming loop is followed by the same wait
\* as a success and by a new turn; with the store usable the turn commits; and
\* the loop is left only through the interrupt signal.
C6_RetryAfterFailure ==
  /\ [][(pc_p \in StreamingPcs /\ pc_p' \notin StreamingPcs) => signal_handler]_vars
  /\ [][(pc_p \in {"loop", "commit"} /\ pc_p' = "error_sleep")
          => wake_p' = now + StreamSleep * Second]_vars
  /\ [][(pc_p = "commit" /\ storeUp /\ pc_p' \in StreamingPcs \ {"commit"})
          => pc_p' = "sleep" /\ Len(db'.rows) = Len(db.rows) + 1]_vars
  /\ (pc_p = "error_sleep") ~> (pc_p \in {"loop", "stopped"} \/ events = MaxEvents)
  /\ (pc_p = "loop") ~> (pc_p \in {"commit", "error_sleep", "stopped"})

\* C6 witness: the loop has caught an error and a later turn has committed.
C6_Witness ==
  /\ failed /\ pc_p = "sleep"
  /\ Len(db.rows) > 0 /\ db.rows[Len(db.rows)].via = "stream"

\* C7: no step removes or changes a committed row.
C7_AppendOnly ==
  [][/\ Len(db'.rows) >= Len(db.rows)
     /\ SubSeq(db'.rows, 1, Len(db.rows)) = db.rows
     /\ \A i \in 1..Len(db'.rows) : db'.rows[i].id = i]_vars

\* C7 witness: create_database has run again over a seeded store, and the
\* dashboard has queried it.
C7_Witness ==
  /\ pc_p = "insert_sample_data" /\ Len(db.rows) >= SeedCount
  /\ LatestRead /\ latest_len >= SeedCount

\* C8: with auto_refresh off, a trigger is followed by one load_data call and
\* at most one render, and the script then rests.
C8_OneCyclePerTrigger ==
  ~auto_refresh =>
    /\ loads <= 1 /\ renders <= loads
    /\ pc_d # "sleeping"
    /\ pc_d \in {"get_latest_values", "render"} => loads = 1 /\ renders = 0
    /\ pc_d = "idle" => loads = 1 /\ renders = 1

\* C8 witness: a click on "Refresh Now" with auto_refresh off has been served.
C8_Witness ==
  ~auto_refresh /\ trigger = "button" /\ pc_d = "idle" /\ loads = 1 /\ renders = 1

\* The store held one seeding followed by streamed rows only.
SeedThenStream ==
  /\ query_len >= SeedCount
  /\ \A i \in 1..query_len : (db.rows[i].via = "seed") <=> (i <= SeedCount)

\* C9: a poll returns rows in the order of their ids, and misses no row of a
\* smaller id that lies in the window.
C9_PollInIdOrder ==
  (Polled /\ SeedThenStream) =>
    /\ \A i \in 1..(Len(df.rows) - 1) : df.rows[i].id < df.rows[i + 1].id
    /\ Len(df.rows) < data_limit =>
         \A k \in 1..query_len :
           db.rows[k].timestamp >= SecFloor(query_now) - hours_back * Hour
             => \E i \in 1..Len(df.rows) : df.rows[i].id = k

\* C10: the streaming loop never ends with an executed INSERT uncommitted.
C10_NoInsertDiscardedOnExit ==
  [][~(pending # NoRow /\ pc_p' = "stopped")]_vars

====
